---- MODULE Spec2Model ----
(***************************************************************************)
(* A model of rust-vault: the encrypted journal server (src/server.rs),    *)
(* its key handling (src/crypto.rs) and its store (src/db.rs).             *)
(*                                                                         *)
(* The libsodium primitives and the base-58 codec are library code.  They  *)
(* are modelled symbolically: a byte string is a sequence of chunks, each  *)
(* chunk a tagged tuple that records how the bytes were produced and how   *)
(* many bytes it stands for.  Two byte strings are equal iff they are the  *)
(* same term, i.e. random values and ciphertexts do not collide.           *)
(***************************************************************************)
EXTENDS Integers, Sequences, FiniteSets, TLC

VARIABLES
    settings,   \* table settings of the store file: key -> set of values (0 or 1 row)
    entry,      \* table entry of the store file: a set of rows, timestamp_ms_utc unique
    state,      \* Some(AppState) while a process serves requests, else None
    starts,     \* number of session keys drawn so far (one per process start)
    req,        \* the request (or command) handled by the last step
    resp,       \* the response the last step returned
    stdout,     \* the lines the last step printed on the server's console
    issued,     \* history: the login cookies handed out, each with the number of the
                \* process that issued it and the key bytes that were submitted
    posted,     \* history: the rows stored by write requests, with the submitted text
    file,       \* the file at the store's path: None, or Some(the tables it holds)
    tasks       \* the commands and request handlers that run interleaved, each
                \* with its position; the specifications that handle one
                \* request at a time leave it empty

vars == <<settings, entry, state, starts, req, resp, stdout, issued, posted, file, tasks>>

(***************************************************************************)
(* Bounds of the model.                                                    *)
(***************************************************************************)
MaxStarts == 2      \* process starts explored
MaxTs     == 2      \* clock values (milliseconds) seen by write requests
WordBits  == 7      \* width of usize / i64 in the model (64 in the build)
MaxRows   == 52     \* largest entry table of the pagination specification

(***************************************************************************)
(* Program and library constants.                                          *)
(***************************************************************************)
DB_VERSION     == 1
DEFAULT_OFFSET == 0
DEFAULT_LIMIT  == 50
NONCEBYTES     == 24    \* secretbox::NONCEBYTES
MACBYTES       == 16    \* secretbox::MACBYTES
SEALBYTES      == 48    \* sealedbox::SEALBYTES
KEYBYTES       == 32    \* box_::SECRETKEYBYTES = PUBLICKEYBYTES = SEEDBYTES

PRIV_KEY_COOKIE == "login"
SETTING_PUBLIC_KEY == "publicKey"
SETTING_VERSION == "version"

(***************************************************************************)
(* Results and options.                                                    *)
(***************************************************************************)
Ok(v)  == [ok |-> TRUE, val |-> v]
Err(m) == [ok |-> FALSE, val |-> m]
None    == <<>>
Some(v) == <<v>>

(***************************************************************************)
(* Byte strings.  A byte string is a sequence of chunks:                   *)
(*   <<"b32", v>>            the KEYBYTES bytes of the 32-byte value v     *)
(*   <<"nonce", n>>          the NONCEBYTES bytes of the n-th random nonce *)
(*   <<"sbox", k, n, d>>     secretbox::seal(d, nonce bytes n, key k)      *)
(*   <<"sealed", pk, d, r>>  sealedbox::seal(d, pk) with ephemeral key r   *)
(*   <<"utf8", t>>           the UTF-8 bytes of the text t                 *)
(*   <<"raw", i, len>>       len bytes that are none of the above          *)
(*   <<"byte", v>>           the one byte of value v, 0..255               *)
(*   <<"part", c, from, to>> the bytes from..to-1 of chunk c               *)
(* and a 32-byte value is one of                                           *)
(*   <<"rnd", i>>            32 random bytes                               *)
(*   <<"seedkey", v>>        the secret key box_::keypair_from_seed(v)     *)
(*   <<"pk", v>>             the public key of the secret key v            *)
(*   <<"alt", v>>            v with one of the bits flipped that X25519    *)
(*                           clears in a secret key before it is used      *)
(*   <<"bytes", b>>          the 32 bytes b, when b is no single b32 chunk *)
(***************************************************************************)
TextLen(t) == CASE t = "hello" -> 5 [] t = "bye" -> 3 [] OTHER -> 1

RECURSIVE BytesLen(_)
ChunkLen(c) ==
    CASE c[1] = "b32"    -> KEYBYTES
      [] c[1] = "nonce"  -> NONCEBYTES
      [] c[1] = "sbox"   -> MACBYTES + BytesLen(c[4])
      [] c[1] = "sealed" -> SEALBYTES + BytesLen(c[3])
      [] c[1] = "utf8"   -> TextLen(c[2])
      [] c[1] = "raw"    -> c[3]
      [] c[1] = "byte"   -> 1
      [] c[1] = "part"   -> c[4] - c[3]

BytesLen(b) == IF b = <<>> THEN 0 ELSE ChunkLen(Head(b)) + BytesLen(Tail(b))

\* The bytes from..to-1 of one chunk.
Part(c, from, to) ==
    IF from >= to THEN <<>>
    ELSE IF from = 0 /\ to = ChunkLen(c) THEN <<c>>
    ELSE IF c[1] = "part" THEN << <<"part", c[2], c[3] + from, c[3] + to>> >>
    ELSE << <<"part", c, from, to>> >>

\* <[u8]>::split_at(mid): the first mid bytes and the rest (mid <= len).
RECURSIVE TakeBytes(_, _)
TakeBytes(b, mid) ==
    IF mid = 0 \/ b = <<>> THEN <<>>
    ELSE IF ChunkLen(Head(b)) <= mid
         THEN <<Head(b)>> \o TakeBytes(Tail(b), mid - ChunkLen(Head(b)))
         ELSE Part(Head(b), 0, mid)

RECURSIVE DropBytes(_, _)
DropBytes(b, mid) ==
    IF mid = 0 \/ b = <<>> THEN b
    ELSE IF ChunkLen(Head(b)) <= mid
         THEN DropBytes(Tail(b), mid - ChunkLen(Head(b)))
         ELSE Part(Head(b), mid, ChunkLen(Head(b))) \o Tail(b)

split_at(b, mid) == <<TakeBytes(b, mid), DropBytes(b, mid)>>

(***************************************************************************)
(* bs58.  A string is one of                                               *)
(*   <<"text", cs>>   the characters cs, each a string of length one       *)
(*   <<"b58", b>>     the base-58 text of the symbolic bytes b             *)
(*   <<"junk", i>>    a text with a character outside the alphabet         *)
(* Bytes given by value are encoded and decoded digit by digit, as the     *)
(* bs58 crate does.  Bytes that hold a symbolic chunk have no digits: their *)
(* text is named by the bytes it decodes to.                               *)
(***************************************************************************)
Alphabet ==
    << "1", "2", "3", "4", "5", "6", "7", "8", "9",
       "A", "B", "C", "D", "E", "F", "G", "H", "J", "K", "L", "M", "N", "P", "Q",
       "R", "S", "T", "U", "V", "W", "X", "Y", "Z",
       "a", "b", "c", "d", "e", "f", "g", "h", "i", "j", "k", "m", "n", "o", "p",
       "q", "r", "s", "t", "u", "v", "w", "x", "y", "z" >>
BASE == 58
BYTE == 256

\* The value of the character c in the alphabet, -1 when it has none.
CharValue(c) ==
    IF \E i \in 1..BASE : Alphabet[i] = c
    THEN (CHOOSE i \in 1..BASE : Alphabet[i] = c) - 1
    ELSE -1

\* digits * factor + carry, for digits in base `base`, lowest digit first:
\* the inner loop of encode and decode and the loop that flushes the carry.
RECURSIVE MulAdd(_, _, _, _)
MulAdd(digits, factor, carry, base) ==
    IF digits = <<>>
    THEN IF carry = 0 THEN <<>>
         ELSE <<carry % base>> \o MulAdd(<<>>, factor, carry \div base, base)
    ELSE LET c == Head(digits) * factor + carry
         IN  <<c % base>> \o MulAdd(Tail(digits), factor, c \div base, base)

\* The digits of the number that the values vs (highest first, base `from`)
\* denote, in base `to`, lowest digit first.
RECURSIVE Convert(_, _, _, _)
Convert(vs, from, to, acc) ==
    IF vs = <<>> THEN acc
    ELSE Convert(Tail(vs), from, to, MulAdd(acc, from, Head(vs), to))

RECURSIVE LeadingZeros(_)
LeadingZeros(vs) ==
    IF vs = <<>> \/ Head(vs) # 0 THEN 0 ELSE 1 + LeadingZeros(Tail(vs))

Reverse(q) == [k \in 1..Len(q) |-> q[Len(q) + 1 - k]]
Repeat(v, n) == [k \in 1..n |-> v]

\* Every byte of b is given by value.
IsLiteral(b) == \A k \in 1..Len(b) : b[k][1] = "byte"

bs58_encode(b) ==
    IF ~IsLiteral(b) THEN <<"b58", b>>
    ELSE LET vs     == [k \in 1..Len(b) |-> b[k][2]]
             digits == Convert(vs, BYTE, BASE, <<>>) \o Repeat(0, LeadingZeros(vs))
         IN  <<"text", [k \in 1..Len(digits) |-> Alphabet[Reverse(digits)[k] + 1]]>>

bs58_decode(s) ==
    IF s[1] = "b58" THEN Ok(s[2])
    ELSE IF s[1] = "text"
    THEN LET vs == [k \in 1..Len(s[2]) |-> CharValue(s[2][k])]
         IN  IF \E k \in 1..Len(vs) : vs[k] < 0
             THEN Err("provided string contained invalid character")
             ELSE LET bytes == Convert(vs, BASE, BYTE, <<>>) \o Repeat(0, LeadingZeros(vs))
                  IN  Ok([k \in 1..Len(bytes) |-> <<"byte", Reverse(bytes)[k]>>])
    ELSE Err("provided string contained invalid character")

(***************************************************************************)
(* String::from_utf8 and str::as_bytes.                                    *)
(***************************************************************************)
as_bytes(t) == IF t = "" THEN <<>> ELSE << <<"utf8", t>> >>
from_utf8(b) ==
    IF b = <<>> THEN Ok("")
    ELSE IF Len(b) = 1 /\ b[1][1] = "utf8" THEN Ok(b[1][2])
    ELSE Err("invalid utf-8 sequence")

(***************************************************************************)
(* libsodium, symbolically.                                                *)
(***************************************************************************)
\* X25519 clears the three lowest bits and fixes the two highest bits of a
\* secret key before every use: secret keys that differ in those bits only
\* act as one key and have one public key.
clamp(sk) == IF sk[1] = "alt" THEN sk[2] ELSE sk

scalarmult_base(sk)  == <<"pk", clamp(sk)>>     \* SecretKey::public_key
keypair_from_seed(v) == [public_key |-> <<"pk", <<"seedkey", v>>>>,
                         private_key |-> <<"seedkey", v>>]

\* AsRef<[u8]> of a SecretKey or PublicKey: the bytes from_slice took it from.
as_ref(v) == IF v[1] = "bytes" THEN v[2] ELSE << <<"b32", v>> >>

\* from_slice of a SecretKey, PublicKey or Seed: exactly KEYBYTES bytes.
from_slice(b) ==
    IF BytesLen(b) # KEYBYTES THEN None
    ELSE IF Len(b) = 1 /\ b[1][1] = "b32" THEN Some(b[1][2])
    ELSE Some(<<"bytes", b>>)

\* secretbox: gen_nonce draws the n-th nonce; open authenticates key, nonce
\* and ciphertext together.
gen_nonce(n) == << <<"nonce", n>> >>
secretbox_seal(data, nonce, key) == << <<"sbox", key, nonce, data>> >>
secretbox_open(cypher, nonce, key) ==
    IF /\ Len(cypher) = 1 /\ cypher[1][1] = "sbox"
       /\ cypher[1][2] = key
       /\ cypher[1][3] = nonce
    THEN Ok(cypher[1][4])
    ELSE Err("()")

sealedbox_seal(data, pk, r) == << <<"sealed", pk, data, r>> >>
sealedbox_open(c, pk, sk) ==
    IF /\ Len(c) = 1 /\ c[1][1] = "sealed"
       /\ c[1][2] = pk
       /\ pk = scalarmult_base(sk)
    THEN Ok(c[1][3])
    ELSE Err("()")

(***************************************************************************)
(* src/crypto.rs                                                           *)
(***************************************************************************)
\* Mutant: every process uses the same key.
SecretBox_generate_fixed(n) == [key |-> <<"skey", 0>>]

\* SecretBox::generate: secretbox::gen_key draws a key no earlier process
\* drew; n counts the keys drawn so far.
SecretBox_generate(n) == [key |-> <<"skey", n>>]

\* Mutant: the sealed bytes are put before the nonce.
SecretBox_encrypt_cypher_first(self, data, n) ==
    LET nonce  == gen_nonce(n)
        cypher == secretbox_seal(data, nonce, self.key)
    IN  cypher \o nonce

SecretBox_encrypt(self, data, n) ==
    LET nonce  == gen_nonce(n)
        cypher == secretbox_seal(data, nonce, self.key)
    IN  nonce \o cypher

\* Mutant: the box is opened without authenticating it against the key.
SecretBox_decrypt_unauthenticated(self, data) ==
    IF NONCEBYTES > BytesLen(data)
    THEN Err("Expected at least 24 bytes for the nonce")
    ELSE LET sp == split_at(data, NONCEBYTES)
         IN  IF Len(sp[2]) = 1 /\ sp[2][1][1] = "sbox"
             THEN Ok(sp[2][1][4]) ELSE Err("Error decrypting.")

SecretBox_decrypt(self, data) ==
    IF NONCEBYTES > BytesLen(data)
    THEN Err("Expected at least 24 bytes for the nonce")
    ELSE LET sp == split_at(data, NONCEBYTES)
             r  == secretbox_open(sp[2], sp[1], self.key)
         IN  IF r.ok THEN r ELSE Err("Error decrypting.")

\* Mutant: any two public keys compare equal.
SealedBoxPublicKey_eq_any(a, b) == TRUE

\* #[derive(PartialEq)] of SealedBoxPublicKey: the raw key bytes are equal.
SealedBoxPublicKey_eq(a, b) == a.key = b.key

SealedBoxPublicKey_from_bytes(bytes) ==
    LET k == from_slice(bytes)
    IN  IF k = None THEN Err("Wrong number of public key bytes")
        ELSE Ok([key |-> k[1]])

SealedBoxPublicKey_from_base58(value) ==
    LET bytes == bs58_decode(value)
    IN  IF ~bytes.ok THEN bytes ELSE SealedBoxPublicKey_from_bytes(bytes.val)

\* Mutant: the text is cleared before it is sealed.
SealedBoxPublicKey_encrypt_cleared(self, bytes, r) == sealedbox_seal(<<>>, self.key, r)

SealedBoxPublicKey_encrypt(self, bytes, r) == sealedbox_seal(bytes, self.key, r)

SealedBoxPublicKey_to_string(self) == bs58_encode(as_ref(self.key))

\* Mutant: the length of the key bytes is not checked.
SealedBoxPrivateKey_from_bytes_any_length(bytes) ==
    LET k == IF from_slice(bytes) = None THEN <<"bytes", bytes>> ELSE from_slice(bytes)[1]
    IN  Ok([public_key  |-> [key |-> scalarmult_base(k)],
            private_key |-> k])

\* SealedBoxPrivateKey::generate: box_::gen_keypair draws the secret key sk.
SealedBoxPrivateKey_generate(sk) ==
    [public_key  |-> [key |-> scalarmult_base(sk)],
     private_key |-> sk]

SealedBoxPrivateKey_from_bytes(bytes) ==
    LET k == from_slice(bytes)
    IN  IF k = None THEN Err("Wrong number of private key bytes")
        ELSE Ok([public_key  |-> [key |-> scalarmult_base(k[1])],
                 private_key |-> k[1]])

SealedBoxPrivateKey_from_base58(value) ==
    LET bytes == bs58_decode(value)
    IN  IF ~bytes.ok THEN bytes ELSE SealedBoxPrivateKey_from_bytes(bytes.val)

\* Mutant: the seed bytes are taken for the private key itself.
SealedBoxPrivateKey_from_base58_seed_as_key(value) ==
    LET bytes == bs58_decode(value)
    IN  IF ~bytes.ok THEN bytes
        ELSE LET seed == from_slice(bytes.val)
             IN  IF seed = None THEN Err("Wrong number of seed bytes")
                 ELSE Ok([private_key |-> seed[1],
                          public_key  |-> [key |-> scalarmult_base(seed[1])]])

SealedBoxPrivateKey_from_base58_seed(value) ==
    LET bytes == bs58_decode(value)
    IN  IF ~bytes.ok THEN bytes
        ELSE LET seed == from_slice(bytes.val)
             IN  IF seed = None THEN Err("Wrong number of seed bytes")
                 ELSE LET kp == keypair_from_seed(seed[1])
                      IN  Ok([private_key |-> kp.private_key,
                              public_key  |-> [key |-> kp.public_key]])

SealedBoxPrivateKey_public(self) == self.public_key

\* Mutant: the box is opened with the two keys of the pair exchanged.
SealedBoxPrivateKey_decrypt_keys_exchanged(self, bytes) ==
    LET r == sealedbox_open(bytes, self.private_key, self.public_key.key)
    IN  IF r.ok THEN r ELSE Err("Error decrypting")

SealedBoxPrivateKey_decrypt(self, bytes) ==
    LET r == sealedbox_open(bytes, self.public_key.key, self.private_key)
    IN  IF r.ok THEN r ELSE Err("Error decrypting")

SealedBoxPrivateKey_decrypt_string(self, bytes) ==
    LET decrypted == SealedBoxPrivateKey_decrypt(self, bytes)
    IN  IF ~decrypted.ok THEN decrypted ELSE from_utf8(decrypted.val)

SealedBoxPrivateKey_bytes(self) == as_ref(self.private_key)

\* Mutant: the public key is rendered in place of the private key.
SealedBoxPrivateKey_to_string_of_public(self) == bs58_encode(as_ref(self.public_key.key))

SealedBoxPrivateKey_to_string(self) == bs58_encode(as_ref(self.private_key))

(***************************************************************************)
(* src/db.rs                                                               *)
(*                                                                         *)
(* The value of a settings row is a Rust string.  The version row is kept  *)
(* as its sequence of characters, the publicKey row as a bs58 string.  A   *)
(* table column with PRIMARY KEY holds at most one row per key: a settings *)
(* key maps to the set of its rows, empty or a singleton.                  *)
(***************************************************************************)
DigitValue(c) ==
    CASE c = "0" -> 0 [] c = "1" -> 1 [] c = "2" -> 2 [] c = "3" -> 3
      [] c = "4" -> 4 [] c = "5" -> 5 [] c = "6" -> 6 [] c = "7" -> 7
      [] c = "8" -> 8 [] c = "9" -> 9 [] OTHER -> -1

RECURSIVE ParseDigits(_, _)
ParseDigits(s, acc) ==
    IF s = <<>> THEN Ok(acc)
    ELSE IF DigitValue(Head(s)) < 0 THEN Err("invalid digit found in string")
    ELSE ParseDigits(Tail(s), acc * 10 + DigitValue(Head(s)))

\* str::parse::<u32>: an optional "+", then one or more decimal digits.  The
\* version strings of the model are too short to overflow a u32.
str_parse_u32(s) ==
    IF s = <<>> THEN Err("cannot parse integer from empty string")
    ELSE LET digits == IF Head(s) = "+" THEN Tail(s) ELSE s
         IN  IF digits = <<>> THEN Err("invalid digit found in string")
             ELSE ParseDigits(digits, 0)

\* fetch_one of SELECT value FROM settings WHERE key = ?
fetch_setting(tbl, key) ==
    IF tbl[key] = {} THEN Err("RowNotFound")
    ELSE Ok(CHOOSE v \in tbl[key] : TRUE)

get_version(tbl) ==
    LET version_str == fetch_setting(tbl, SETTING_VERSION)
    IN  IF ~version_str.ok THEN version_str
        ELSE LET version == str_parse_u32(version_str.val)
             IN  IF ~version.ok THEN Err("Error parsing DB version") ELSE version

\* Mutant: a newer store is taken for current.
needs_upgrade_newer_passes(tbl) ==
    LET version == get_version(tbl)
    IN  IF ~version.ok THEN version
        ELSE IF version.val >= DB_VERSION THEN Ok(FALSE)
        ELSE Ok(TRUE)

needs_upgrade(tbl) ==
    LET version == get_version(tbl)
    IN  IF ~version.ok THEN version
        ELSE IF version.val = DB_VERSION THEN Ok(FALSE)
        ELSE IF DB_VERSION > version.val THEN Ok(TRUE)
        ELSE Ok(TRUE)

public_key(tbl) ==
    LET key_str == fetch_setting(tbl, SETTING_PUBLIC_KEY)
    IN  IF ~key_str.ok THEN key_str
        ELSE LET key == SealedBoxPublicKey_from_base58(key_str.val)
             IN  IF ~key.ok THEN Err("Decoding public key") ELSE key

\* INSERT INTO settings (key, value) VALUES(?,?): key is the PRIMARY KEY.
write_setting(tbl, key, value) ==
    IF tbl[key] # {}
    THEN [res |-> Err("UNIQUE constraint failed: settings.key"), settings |-> tbl]
    ELSE [res |-> Ok("()"), settings |-> [tbl EXCEPT ![key] = {value}]]

\* Mutant: the path is not looked at.
path_exists_never(f) == FALSE

\* Path::exists: f is the file at the path, None when there is none.
path_exists(f) == f # None

\* usize and i64 have WordBits bits; `u as i64` keeps the bits.
UsizeMax == 2^WordBits - 1
I64Max   == 2^(WordBits - 1) - 1
as_i64(u) == IF u > I64Max THEN u - 2^WordBits ELSE u

\* ORDER BY timestamp_ms_utc DESC
RECURSIVE order_by_desc(_)
order_by_desc(rows) ==
    IF rows = {} THEN <<>>
    ELSE LET top == CHOOSE r \in rows :
                        \A q \in rows : q.timestamp_ms_utc <= r.timestamp_ms_utc
         IN  <<top>> \o order_by_desc(rows \ {top})

\* SQLite's LIMIT offset, count: a negative offset counts as 0 and a negative
\* count means no upper bound.
sqlite_limit(rows, offset, count) ==
    LET skip == IF offset < 0 THEN 0 ELSE offset
        from == IF skip > Len(rows) THEN Len(rows) ELSE skip
        left == Len(rows) - from
        take == IF count < 0 \/ count > left THEN left ELSE count
    IN  SubSeq(rows, from + 1, from + take)

\* query: [offset |-> Option<usize>, limit |-> Option<usize>]
get_posts(tbl, query) ==
    LET offset == IF query.offset = None THEN DEFAULT_OFFSET ELSE as_i64(query.offset[1])
        limit  == IF query.limit = None THEN DEFAULT_LIMIT ELSE as_i64(query.limit[1])
    IN  sqlite_limit(order_by_desc(tbl), offset, limit)

\* Mutant: INSERT OR IGNORE.
write_entry_or_ignore(tbl, e) ==
    [res |-> Ok("()"),
     entry |-> IF \E r \in tbl : r.timestamp_ms_utc = e.timestamp_ms_utc
               THEN tbl ELSE tbl \cup {e}]

\* Mutant: INSERT .. ON CONFLICT(timestamp_ms_utc) DO UPDATE SET contents.
write_entry_upsert(tbl, e) ==
    [res |-> Ok("()"),
     entry |-> { r \in tbl : r.timestamp_ms_utc # e.timestamp_ms_utc }
               \cup { [r EXCEPT !.contents = e.contents] :
                        r \in { q \in tbl : q.timestamp_ms_utc = e.timestamp_ms_utc } }
               \cup { q \in {e} : \A r \in tbl : r.timestamp_ms_utc # e.timestamp_ms_utc }]

\* Mutant: INSERT OR REPLACE.
write_entry_or_replace(tbl, e) ==
    [res |-> Ok("()"),
     entry |-> { r \in tbl : r.timestamp_ms_utc # e.timestamp_ms_utc } \cup {e}]

\* INSERT INTO entry: timestamp_ms_utc is the PRIMARY KEY.
write_entry(tbl, e) ==
    IF \E r \in tbl : r.timestamp_ms_utc = e.timestamp_ms_utc
    THEN [res |-> Err("UNIQUE constraint failed: entry.timestamp_ms_utc"), entry |-> tbl]
    ELSE [res |-> Ok("()"), entry |-> tbl \cup {e}]

Entry(ts, off, contents) ==
    [timestamp_ms_utc |-> ts, offset_utc_mins |-> off, contents |-> contents]

(***************************************************************************)
(* src/server.rs: the request extension (RequestExt).  st is the AppState, *)
(* cookie the value of the request's "login" cookie, if it has one.        *)
(***************************************************************************)
\* Mutant: the cookie holds the bytes as they are, not sealed.
decrypt_bytes_unsealed(st, value) ==
    LET cypher == bs58_decode(value)
    IN  IF ~cypher.ok THEN cypher ELSE Ok(Some(cypher.val))

decrypt_bytes(st, value) ==
    LET cypher == bs58_decode(value)
    IN  IF ~cypher.ok THEN cypher
        ELSE LET decrypted == SecretBox_decrypt(st.secret_box, cypher.val)
             IN  IF ~decrypted.ok THEN decrypted ELSE Ok(Some(decrypted.val))

encrypt_bytes(st, data, n) == bs58_encode(SecretBox_encrypt(st.secret_box, data, n))

get_priv_key(st, cookie) ==
    IF cookie = None THEN Ok(None)
    ELSE LET key_bytes == decrypt_bytes(st, cookie[1])
         IN  IF ~key_bytes.ok THEN key_bytes
             ELSE IF key_bytes.val = None THEN Ok(None)
             ELSE LET key == SealedBoxPrivateKey_from_bytes(key_bytes.val[1])
                  IN  IF ~key.ok THEN key ELSE Ok(Some(key.val))

set_priv_key(st, key, n) == encrypt_bytes(st, key, n)

logged_in(st, cookie) ==
    LET key == get_priv_key(st, cookie)
    IN  key.ok /\ key.val # None

(***************************************************************************)
(* Responses.  A handler that returns Err is answered by tide with status  *)
(* 500 and no body.                                                        *)
(***************************************************************************)
Response(status, location, cookie, body) ==
    [status |-> status, location |-> location, cookie |-> cookie, body |-> body]

Rendered(body)      == Response(200, "", None, body)
ServerError(msg)    == Response(500, "", None, <<"error", msg>>)
NoResponse          == Response(0, "", None, <<"none">>)
\* async_run_server returns Err: the command exits with status 1 and the error.
CommandFailed(msg)  == Response(1, "", None, <<"error", msg>>)

render_markdown(md) == <<"html", md>>

\* FixedOffset::east(offset_secs).timestamp_millis(ts).format(..)
format_timestamp(e) == <<"time", e.timestamp_ms_utc, e.offset_utc_mins * 60>>

entry_to_post(e, key) ==
    LET markdown == SealedBoxPrivateKey_decrypt_string(key, e.contents)
    IN  IF ~markdown.ok THEN markdown
        ELSE Ok([html |-> render_markdown(markdown.val),
                 timestamp |-> format_timestamp(e)])

\* Mutant: filter_map(..ok()): entries that fail are left out.
RECURSIVE collect_posts_skipping(_, _)
collect_posts_skipping(entries, key) ==
    IF entries = <<>> THEN Ok(<<>>)
    ELSE LET post == entry_to_post(Head(entries), key)
             rest == collect_posts_skipping(Tail(entries), key)
         IN  IF ~post.ok THEN rest ELSE Ok(<<post.val>> \o rest.val)

\* .map(|e| entry_to_post(e, &req, &key)).collect::<anyhow::Result<Vec<Post>>>():
\* the posts of all entries, or the first error.
RECURSIVE collect_posts(_, _)
collect_posts(entries, key) ==
    IF entries = <<>> THEN Ok(<<>>)
    ELSE LET post == entry_to_post(Head(entries), key)
         IN  IF ~post.ok THEN post
             ELSE LET rest == collect_posts(Tail(entries), key)
                  IN  IF ~rest.ok THEN rest ELSE Ok(<<post.val>> \o rest.val)

\* GET /read
read_posts(st, tbl, cookie, query) ==
    IF ~logged_in(st, cookie) THEN Response(307, "/login", None, <<"empty">>)
    ELSE LET key   == get_priv_key(st, cookie).val[1]
             posts == collect_posts(get_posts(tbl, query), key)
         IN  IF ~posts.ok THEN ServerError(posts.val)
             ELSE Rendered(<<"posts.html", posts.val>>)

(***************************************************************************)
(* The inputs of the model.                                                *)
(***************************************************************************)
ServerSeed == <<"rnd", 1>>                  \* the seed the journal's key pair derives from
ServerKey  == <<"seedkey", ServerSeed>>     \* the journal's private key
OtherKey   == <<"rnd", 2>>                  \* an unrelated private key
ServerPub  == scalarmult_base(ServerKey)

B32(v) == << <<"b32", v>> >>
Raw(i, len) == << <<"raw", i, len>> >>

Texts == {"hello", "bye"}
Nonces == {1, 2}                            \* the nonces secretbox::gen_nonce draws
Offsets == {60}                             \* local_minus_utc() / 60 of the server's zone

\* What a user can type into the login form.
Secrets ==
    { bs58_encode(B32(ServerKey)),          \* the private key
      bs58_encode(B32(ServerSeed)),         \* the seed of the private key
      bs58_encode(B32(OtherKey)),           \* a well-formed key of another pair
      bs58_encode(B32(ServerPub)),          \* the public key
      bs58_encode(Raw(1, 31)),              \* base-58 of the wrong length
      <<"junk", 1>> }                       \* not base-58

\* The value of the version row of a store file.
VersionStrings ==
    { <<"1">>, <<"+", "1">>, <<"0">>, <<"2">>, <<"1", "0">>, <<"v", "1">>, <<>> }

\* Rows a store file can hold that no write request of this server stored.
ForeignRows ==
    { Entry(0, 0, sealedbox_seal(as_bytes("hello"), ServerPub, 0)),
      Entry(0, 0, sealedbox_seal(as_bytes("hello"), scalarmult_base(OtherKey), 0)),
      Entry(0, 0, sealedbox_seal(Raw(2, 4), ServerPub, 0)),
      Entry(0, 0, Raw(3, 60)) }

\* The session keys of the processes of one run of the model.
SessionBoxes == { SecretBox_generate(n) : n \in 1..MaxStarts }

\* Cookie values no login handed out: arbitrary text, and for each session box
\* a cookie with a swapped nonce, a cut cookie, and cookies that box would
\* open to something else than the journal's private key.
CraftedCookies ==
    { <<"junk", 2>>, bs58_encode(Raw(4, 10)), bs58_encode(Raw(5, 72)) }
    \cup { bs58_encode(gen_nonce(2) \o secretbox_seal(B32(ServerKey), gen_nonce(1), b.key))
             : b \in SessionBoxes }
    \cup { bs58_encode(TakeBytes(SecretBox_encrypt(b, B32(ServerKey), 1), 60))
             : b \in SessionBoxes }
    \cup { bs58_encode(TakeBytes(SecretBox_encrypt(b, B32(ServerKey), 1), 20))
             : b \in SessionBoxes }
    \cup { bs58_encode(SecretBox_encrypt(b, Raw(6, 5), 1)) : b \in SessionBoxes }
    \cup { bs58_encode(SecretBox_encrypt(b, B32(OtherKey), 1)) : b \in SessionBoxes }

\* The "login" cookie of a request: none, one a login handed out, or a crafted one.
Cookies == {None} \cup { Some(c) : c \in CraftedCookies \cup { i.cookie : i \in issued } }

Query(offset, limit) == [offset |-> offset, limit |-> limit]
Queries == { Query(None, None), Query(Some(1), Some(1)) }

(***************************************************************************)
(* The state machine.  The store file exists before the server opens it;   *)
(* state is None while no process serves.  One request is handled at a     *)
(* time: req, resp and stdout describe the request being answered, and     *)
(* Deliver hands the response over and leaves the server idle.             *)
(***************************************************************************)
\* The file of a store that create_db has set up: both tables exist.
Tables == {"settings", "entry"}
StoreFile == Some(Tables)

NoRequest == <<"none">>
Idle == req = NoRequest
\* The store files the server is started on: the settings rows as create_db
\* and the init command leave them or as some other tool did, with the rows
\* of ForeignRows in the journal created by this program.
SettingsTables ==
    { [version |-> v, publicKey |-> k] :
        v \in { {x} : x \in VersionStrings } \cup { {} },
        k \in { {SealedBoxPublicKey_to_string([key |-> ServerPub])}, {} } }
EntryTables(tbl) ==
    IF tbl.version = { <<"1">> }
    THEN { {} } \cup { {r} : r \in ForeignRows }
    ELSE { {} }

Init ==
    /\ settings \in SettingsTables
    /\ entry \in EntryTables(settings)
    /\ state = None
    /\ starts = 0
    /\ req = NoRequest
    /\ resp = NoResponse
    /\ stdout = <<>>
    /\ issued = {}
    /\ posted = {}
    /\ file = StoreFile
    /\ tasks = {}

\* async_run_server up to app.listen: the command `open`.
Start ==
    /\ Idle
    /\ state = None
    /\ starts < MaxStarts
    /\ req' = <<"open">>
    /\ LET upgrade == needs_upgrade(settings)
           key     == public_key(settings)
       IN  IF ~upgrade.ok
           THEN /\ resp' = CommandFailed(upgrade.val)
                /\ stdout' = <<>>
                /\ UNCHANGED <<state, starts>>
           ELSE IF upgrade.val
           THEN /\ resp' = CommandFailed("Database needs an upgrade")
                /\ stdout' = << <<"Database version", get_version(settings).val, DB_VERSION>> >>
                /\ UNCHANGED <<state, starts>>
           ELSE IF ~key.ok
           THEN /\ resp' = CommandFailed("getting public key")
                /\ stdout' = <<>>
                /\ UNCHANGED <<state, starts>>
           ELSE /\ state' = Some([secret_box |-> SecretBox_generate(starts + 1),
                                  public_key |-> key.val])
                /\ starts' = starts + 1
                /\ resp' = NoResponse
                /\ stdout' = << <<"Server running at:">> >>
    /\ UNCHANGED <<settings, entry, issued, posted>>
    /\ UNCHANGED <<file, tasks>>

\* GET /shutdown: the page is rendered and the server stops.
Shutdown ==
    /\ Idle
    /\ state # None
    /\ req' = <<"GET /shutdown">>
    /\ resp' = Rendered(<<"message.html">>)
    /\ stdout' = << <<"User requested shutdown.">> >>
    /\ state' = None
    /\ UNCHANGED <<settings, entry, starts, issued, posted>>
    /\ UNCHANGED <<file, tasks>>

\* POST /: form fields post, preview, submit; the clock reads now_ms, the
\* zone is now_off minutes east; r is the ephemeral key of sealedbox::seal.
WritePost(post, preview, submit, now_ms, now_off, r) ==
    /\ Idle
    /\ state # None
    /\ req' = <<"POST /", post, preview, submit, now_ms>>
    /\ stdout' = <<>>
    /\ IF submit
       THEN LET e == Entry(now_ms, now_off,
                           SealedBoxPublicKey_encrypt(state[1].public_key, as_bytes(post), r))
                w == write_entry(entry, e)
            IN  IF ~w.res.ok
                THEN /\ resp' = ServerError(w.res.val)
                     /\ UNCHANGED <<entry, posted>>
                ELSE /\ entry' = w.entry
                     /\ posted' = posted \cup {[row |-> e, text |-> post]}
                     /\ resp' = Rendered(<<"write.html", "", "", "Post saved.">>)
       ELSE /\ resp' = Rendered(<<"write.html", post,
                                  IF preview THEN render_markdown(post)[2] ELSE "", "">>)
            /\ UNCHANGED <<entry, posted>>
    /\ UNCHANGED <<settings, state, starts, issued>>
    /\ UNCHANGED <<file, tasks>>

\* POST /login: form field secret; n is the nonce gen_nonce draws.
Login(secret, n) ==
    /\ Idle
    /\ state # None
    /\ req' = <<"POST /login", secret>>
    /\ LET st  == state[1]
           key == SealedBoxPrivateKey_from_base58(secret)
       IN  IF ~key.ok
           THEN /\ stdout' = << <<"Bad secret.">> >>
                /\ resp' = Rendered(<<"login.html">>)
                /\ UNCHANGED issued
           ELSE IF SealedBoxPublicKey_eq(SealedBoxPrivateKey_public(key.val), st.public_key)
           THEN LET cookie == set_priv_key(st, SealedBoxPrivateKey_bytes(key.val), n)
                IN  /\ resp' = Response(303, "/read", Some(cookie), <<"empty">>)
                    /\ stdout' = <<>>
                    /\ issued' = issued \cup {[cookie |-> cookie, by |-> starts,
                                                key |-> bs58_decode(secret).val]}
           ELSE LET seeded == SealedBoxPrivateKey_from_base58_seed(secret)
                IN  /\ stdout' =
                          << <<"Login attempt with incorrect private key.">> >> \o
                          ( IF seeded.ok /\ SealedBoxPublicKey_eq(
                                             SealedBoxPrivateKey_public(seeded.val), st.public_key)
                            THEN << <<"You supplied the seed for the private key.">>,
                                    <<"Instead, use the private key:",
                                      SealedBoxPrivateKey_to_string(seeded.val)>> >>
                            ELSE <<>> )
                    /\ resp' = Rendered(<<"login.html">>)
                    /\ UNCHANGED issued
    /\ UNCHANGED <<settings, entry, state, starts, posted>>
    /\ UNCHANGED <<file, tasks>>

\* GET /read
ReadPosts(cookie, query) ==
    /\ Idle
    /\ state # None
    /\ req' = <<"GET /read", cookie, query>>
    /\ resp' = read_posts(state[1], entry, cookie, query)
    /\ stdout' = <<>>
    /\ UNCHANGED <<settings, entry, state, starts, issued, posted>>
    /\ UNCHANGED <<file, tasks>>

\* GET / and GET /login: the forms.
GetForm(path) ==
    /\ Idle
    /\ state # None
    /\ req' = <<"GET", path>>
    /\ resp' = Rendered(IF path = "/" THEN <<"write.html", "", "", "">> ELSE <<"login.html">>)
    /\ stdout' = <<>>
    /\ UNCHANGED <<settings, entry, state, starts, issued, posted>>
    /\ UNCHANGED <<file, tasks>>

\* The response is handed to the client (or the command returns).
Deliver ==
    /\ ~Idle
    /\ req' = NoRequest
    /\ resp' = NoResponse
    /\ stdout' = <<>>
    /\ UNCHANGED <<settings, entry, state, starts, issued, posted>>
    /\ UNCHANGED <<file, tasks>>

Next ==
    \/ Start
    \/ Deliver
    \/ Shutdown
    \/ \E post \in Texts, preview \in BOOLEAN, now_ms \in 1..MaxTs, now_off \in Offsets :
            WritePost(post, preview, TRUE, now_ms, now_off, 1)
    \/ \E post \in Texts, preview \in BOOLEAN :
            WritePost(post, preview, FALSE, 0, 0, 1)
    \/ \E secret \in Secrets, n \in Nonces : Login(secret, n)
    \/ \E cookie \in Cookies, query \in Queries : ReadPosts(cookie, query)
    \/ \E path \in {"/", "/login"} : GetForm(path)

Spec == Init /\ [][Next]_vars

(***************************************************************************)
(* Vocabulary of the properties.                                           *)
(***************************************************************************)
IsLogin == req[1] = "POST /login"
IsRead  == req[1] = "GET /read"
IsWrite == req[1] = "POST /"

LoginPage     == Rendered(<<"login.html">>)
LoginRedirect == Response(307, "/login", None, <<"empty">>)

\* secret is the base-58 text of a 32-byte private key whose public key is pk.
KeyMatches(secret, pk) ==
    /\ secret[1] = "b58"
    /\ Len(secret[2]) = 1
    /\ secret[2][1][1] = "b32"
    /\ <<"pk", clamp(secret[2][1][2])>> = pk.key

\* The cookies handed out by the process that is serving now.
CurrentCookies == { i \in issued : state # None /\ i.by = starts }

(***************************************************************************)
(* C1.  A login with the base-58 private key whose public key equals the   *)
(* server's public key succeeds: the response redirects to /read and sets  *)
(* the login cookie; decrypting the cookie with the process session key    *)
(* yields exactly the submitted private-key bytes; and every cookie the    *)
(* serving process handed out authorizes a request with that private key,  *)
(* so that a read presenting it is not sent to the login page.             *)
(***************************************************************************)
C1_LoginIssuesToken ==
    /\ (IsLogin /\ KeyMatches(req[2], state[1].public_key)) =>
          /\ resp.status = 303 /\ resp.location = "/read"
          /\ resp.cookie # None
          /\ LET d == decrypt_bytes(state[1], resp.cookie[1])
             IN  d.ok /\ d.val = Some(req[2][2])
          /\ \E i \in CurrentCookies : i.cookie = resp.cookie[1] /\ i.key = req[2][2]
    /\ \A i \in CurrentCookies :
          LET k == get_priv_key(state[1], Some(i.cookie))
          IN  /\ k.ok /\ k.val # None
              /\ SealedBoxPrivateKey_bytes(k.val[1]) = i.key
              /\ logged_in(state[1], Some(i.cookie))
    /\ (IsRead /\ \E i \in CurrentCookies : req[2] = Some(i.cookie)) => resp # LoginRedirect

C1_Witness ==
    /\ IsRead
    /\ \E i \in CurrentCookies : req[2] = Some(i.cookie) /\ i.key = B32(ServerKey)
    /\ resp.status = 200

(***************************************************************************)
(* C2.  A failing login (a secret that is no base-58 32-byte key, a        *)
(* well-formed key whose public key differs from the server's, or the      *)
(* legacy seed) sets no login cookie, and leaves the entry table, the      *)
(* settings table and the session key as they were before the request.     *)
(***************************************************************************)
C2_FailedLoginChangesNothing ==
    [][ ( /\ req' # req
          /\ req'[1] = "POST /login"
          /\ ~KeyMatches(req'[2], state[1].public_key) )
        => ( /\ resp'.cookie = None
             /\ issued' = issued
             /\ entry' = entry
             /\ settings' = settings
             /\ state' = state ) ]_vars

C2_Witness ==
    /\ IsLogin
    /\ req[2] = bs58_encode(B32(OtherKey))
    /\ resp = LoginPage
    /\ entry # {}

(***************************************************************************)
(* C3.  When the submitted secret is the 32-byte seed the server's key     *)
(* pair derives from (and not the private key), the login authenticates    *)
(* nobody: no cookie is set and none is recorded as issued.  The handler   *)
(* reports the outcome "You supplied the seed for the private key",        *)
(* together with the private key to use, on the server's console, and it   *)
(* does not report it for a well-formed secret unrelated to the key pair.  *)
(***************************************************************************)
SeedLine == <<"You supplied the seed for the private key.">>
Lines(out) == { out[k] : k \in 1..Len(out) }

\* secret is the base-58 text of the 32-byte seed of the key pair of pk.
SeedMatches(secret, pk) ==
    /\ secret[1] = "b58"
    /\ Len(secret[2]) = 1
    /\ secret[2][1][1] = "b32"
    /\ <<"pk", <<"seedkey", secret[2][1][2]>>>> = pk.key

\* secret is the base-58 text of 32 bytes.
WellFormed(secret) ==
    secret[1] = "b58" /\ Len(secret[2]) = 1 /\ secret[2][1][1] = "b32"

C3_SeedIsReportedNotAccepted ==
    IsLogin =>
       LET pk == state[1].public_key
       IN  /\ (SeedMatches(req[2], pk) /\ ~KeyMatches(req[2], pk)) =>
                 /\ resp.cookie = None
                 /\ resp = LoginPage
                 /\ \A i \in CurrentCookies : i.key # req[2][2]
                 /\ SeedLine \in Lines(stdout)
                 /\ <<"Instead, use the private key:",
                      bs58_encode(B32(<<"seedkey", req[2][2][1][2]>>))>> \in Lines(stdout)
           /\ (WellFormed(req[2]) /\ ~SeedMatches(req[2], pk) /\ ~KeyMatches(req[2], pk)) =>
                 /\ resp.cookie = None
                 /\ SeedLine \notin Lines(stdout)

C3_Witness ==
    /\ IsLogin
    /\ req[2] = bs58_encode(B32(ServerSeed))
    /\ SeedLine \in Lines(stdout)
    /\ resp.cookie = None

(***************************************************************************)
(* The shapes of a login cookie, told from the bytes alone.                *)
(***************************************************************************)
\* b is a nonce followed by a box sealed with that nonce under the key of st.
Authentic(st, b) ==
    /\ Len(b) = 2
    /\ b[1][1] = "nonce"
    /\ b[2][1] = "sbox"
    /\ b[2][2] = st.secret_box.key
    /\ b[2][3] = <<b[1]>>

NotBase58(c)       == c # None /\ c[1][1] # "b58"
ShorterThanNonce(c) == c # None /\ c[1][1] = "b58" /\ BytesLen(c[1][2]) < NONCEBYTES
Tampered(st, c) ==
    /\ c # None /\ c[1][1] = "b58"
    /\ BytesLen(c[1][2]) >= NONCEBYTES
    /\ ~Authentic(st, c[1][2])
WrongPayload(st, c) ==
    /\ c # None /\ c[1][1] = "b58"
    /\ Authentic(st, c[1][2])
    /\ BytesLen(c[1][2][2][4]) # KEYBYTES

\* c wraps the 32 bytes of a private key under the key of st.
Authorized(st, c) ==
    /\ c # None /\ c[1][1] = "b58"
    /\ Authentic(st, c[1][2])
    /\ Len(c[1][2][2][4]) = 1
    /\ c[1][2][2][4][1][1] = "b32"
WrappedKey(c) == c[1][2][2][4][1][2]

(***************************************************************************)
(* C4.  Authorization never fails with an error for a missing or invalid   *)
(* session: a read request with no login cookie, with a cookie that is not *)
(* base-58, with one shorter than the 24-byte nonce, with a tampered one,  *)
(* or with one whose decrypted payload is not 32 bytes long, is answered   *)
(* by the redirect to the login page, which carries no entry content.      *)
(***************************************************************************)
C4_InvalidSessionIsAnonymous ==
    IsRead =>
       ( ( \/ req[2] = None
           \/ NotBase58(req[2])
           \/ ShorterThanNonce(req[2])
           \/ Tampered(state[1], req[2])
           \/ WrongPayload(state[1], req[2]) )
         => /\ resp = LoginRedirect
            /\ ~logged_in(state[1], req[2]) )

C4_Witness ==
    /\ IsRead
    /\ WrongPayload(state[1], req[2])
    /\ entry # {}
    /\ resp = LoginRedirect

(***************************************************************************)
(* C5.  A restart invalidates every outstanding cookie: a cookie handed    *)
(* out by a login of an earlier process is not accepted by the process     *)
(* serving now, and a read request presenting it is answered by the        *)
(* redirect to the login page.                                             *)
(***************************************************************************)
C5_RestartInvalidatesTokens ==
    /\ \A i \in issued :
          (state # None /\ i.by < starts) => ~logged_in(state[1], Some(i.cookie))
    /\ (IsRead /\ \E i \in issued : i.by < starts /\ req[2] = Some(i.cookie))
          => resp = LoginRedirect

C5_Witness ==
    /\ IsRead
    /\ \E i \in issued : i.by < starts /\ req[2] = Some(i.cookie)
    /\ CurrentCookies # {}
    /\ resp = LoginRedirect

(***************************************************************************)
(* C6.  Read after write: a read request authorized with a cookie of the   *)
(* matching private key returns, for every entry of the requested page     *)
(* that a write request stored, the text that was submitted with that      *)
(* write request (rendered as markdown); and when every entry of the page  *)
(* was stored by a write request, the read succeeds.                       *)
(***************************************************************************)
PostedRows == { p.row : p \in posted }
TextOf(row) == (CHOOSE p \in posted : p.row = row).text

C6_ReadAfterWrite ==
    (IsRead /\ \E i \in CurrentCookies : req[2] = Some(i.cookie)) =>
       LET page == get_posts(entry, req[3])
       IN  /\ (\A k \in 1..Len(page) : page[k] \in PostedRows) => resp.status = 200
           /\ resp.status = 200 =>
                 /\ resp.body[1] = "posts.html"
                 /\ Len(resp.body[2]) = Len(page)
                 /\ \A k \in 1..Len(page) :
                       page[k] \in PostedRows =>
                          resp.body[2][k].html = render_markdown(TextOf(page[k]))

C6_Witness ==
    /\ IsRead
    /\ \E i \in CurrentCookies : req[2] = Some(i.cookie)
    /\ resp.status = 200
    /\ LET page == get_posts(entry, req[3])
       IN  /\ Len(page) >= 2
           /\ \A k \in 1..Len(page) : page[k] \in PostedRows
           /\ TextOf(page[1]) # TextOf(page[2])

(***************************************************************************)
(* C7.  A page read is all-or-nothing: when an entry of the requested page *)
(* cannot be decrypted with the private key of the session (its contents   *)
(* are no sealed box, are sealed for another key, or hold a plaintext that *)
(* is not UTF-8), the read request fails with an error and returns no      *)
(* post, neither that of the failing entry nor those of the others.        *)
(***************************************************************************)
Undecryptable(row, sk) ==
    LET c == row.contents
    IN  ~ ( /\ Len(c) = 1
            /\ c[1][1] = "sealed"
            /\ c[1][2] = <<"pk", sk>>
            /\ \/ c[1][3] = <<>>
               \/ Len(c[1][3]) = 1 /\ c[1][3][1][1] = "utf8" )

C7_PageReadAllOrNothing ==
    (IsRead /\ Authorized(state[1], req[2])) =>
       LET page == get_posts(entry, req[3])
       IN  (\E k \in 1..Len(page) : Undecryptable(page[k], WrappedKey(req[2])))
              => /\ resp.status = 500
                 /\ resp.body[1] = "error"

C7_Witness ==
    /\ IsRead
    /\ Authorized(state[1], req[2])
    /\ resp.status = 500
    /\ LET page == get_posts(entry, req[3])
       IN  /\ \E k \in 1..Len(page) : Undecryptable(page[k], WrappedKey(req[2]))
           /\ \E k \in 1..Len(page) : ~Undecryptable(page[k], WrappedKey(req[2]))

(***************************************************************************)
(* C8.  A write request whose timestamp equals that of a stored entry      *)
(* fails with an error and leaves the entry table unchanged: the stored    *)
(* entry keeps its offset and contents and no entry is added.              *)
(***************************************************************************)
C8_DuplicateTimestampRejected ==
    [][ ( /\ req' # req
          /\ req'[1] = "POST /"
          /\ req'[4]
          /\ \E r \in entry : r.timestamp_ms_utc = req'[5] )
        => ( /\ resp'.status = 500
             /\ entry' = entry ) ]_vars

C8_Witness ==
    /\ IsWrite
    /\ req[4]
    /\ resp.status = 500
    /\ \E p \in posted : /\ p.row \in entry
                         /\ p.row.timestamp_ms_utc = req[5]
                         /\ p.text # req[2]

(***************************************************************************)
(* C10.  Schema version gate: a process serves requests only on a store    *)
(* whose version row reads 1.  On a store with any other version row the   *)
(* command open fails, no request is handled and no entry is written; and  *)
(* for every other version number, older or newer, needs_upgrade is true.  *)
(***************************************************************************)
VersionOne == { { <<"1">> }, { <<"+", "1">> } }      \* version rows that read 1
OtherVersionNumbers == { <<"0">>, <<"2">>, <<"1", "0">> }

C10_SchemaVersionGate ==
    /\ state # None => settings.version \in VersionOne
    /\ settings.version \notin VersionOne =>
          /\ req \in {NoRequest, <<"open">>}
          /\ req = <<"open">> => resp.status = 1 /\ resp.body[1] = "error"
          /\ posted = {}
          /\ issued = {}
    /\ (\E v \in OtherVersionNumbers : settings.version = {v}) =>
          LET upgrade == needs_upgrade(settings)
          IN  upgrade.ok /\ upgrade.val

C10_Witness ==
    /\ settings.version = { <<"2">> }
    /\ settings.publicKey # {}
    /\ req = <<"open">>
    /\ resp = CommandFailed("Database needs an upgrade")
    /\ state = None

(***************************************************************************)
(* The pagination specification: get_posts applied to stores of 0 to       *)
(* MaxRows entries, for offsets and limits over the whole usize range.     *)
(***************************************************************************)
RowsUpTo(n) == { Entry(2 * i, 60, Raw(i, 60)) : i \in 1..n }

PageNumbers ==
    { 0, 1, 2, DEFAULT_LIMIT - 1, DEFAULT_LIMIT, DEFAULT_LIMIT + 1,
      I64Max, I64Max + 1, UsizeMax }
PageQueries ==
    { Query(o, l) : o \in {None} \cup { Some(x) : x \in PageNumbers },
                    l \in {None} \cup { Some(x) : x \in PageNumbers } }

InitPage ==
    /\ settings = [version |-> { <<"1">> },
                   publicKey |-> {SealedBoxPublicKey_to_string([key |-> ServerPub])}]
    /\ entry \in { RowsUpTo(n) : n \in 0..MaxRows }
    /\ state = None
    /\ starts = 0
    /\ req = NoRequest
    /\ resp = NoResponse
    /\ stdout = <<>>
    /\ issued = {}
    /\ posted = {}
    /\ file = StoreFile
    /\ tasks = {}

\* db.get_posts(&query)
GetPosts(query) ==
    /\ Idle
    /\ req' = <<"get_posts", query>>
    /\ resp' = Rendered(<<"rows", get_posts(entry, query)>>)
    /\ stdout' = <<>>
    /\ UNCHANGED <<settings, entry, state, starts, issued, posted>>
    /\ UNCHANGED <<file, tasks>>

NextPage ==
    \/ \E query \in PageQueries : GetPosts(query)
    \/ Deliver

SpecPage == InitPage /\ [][NextPage]_vars

(***************************************************************************)
(* C9.  For a store of N entries and every offset and limit, get_posts     *)
(* returns the entries at the positions offset+1 .. offset+limit of the    *)
(* entries in strictly descending order of timestamp: the page has         *)
(* min(limit, max(0, N - offset)) entries; an absent offset counts as 0    *)
(* and an absent limit as 50.                                              *)
(***************************************************************************)
Min(a, b) == IF a < b THEN a ELSE b
Max(a, b) == IF a > b THEN a ELSE b

\* The position of row r when all entries are listed newest first.
Rank(r) == Cardinality({ q \in entry : q.timestamp_ms_utc > r.timestamp_ms_utc }) + 1

C9_PageIsSliceOfDescendingList ==
    req[1] = "get_posts" =>
       LET offset == IF req[2].offset = None THEN 0 ELSE req[2].offset[1]
           limit  == IF req[2].limit = None THEN 50 ELSE req[2].limit[1]
           N      == Cardinality(entry)
           page   == resp.body[2]
       IN  /\ Len(page) = Min(limit, Max(0, N - offset))
           /\ \A k \in 1..Len(page) : page[k] \in entry /\ Rank(page[k]) = offset + k

\* The same for the offsets and limits that fit an i64.
C9_WithinI64 ==
    ( /\ req[1] = "get_posts"
      /\ req[2].offset # None => req[2].offset[1] <= I64Max
      /\ req[2].limit # None => req[2].limit[1] <= I64Max )
    => C9_PageIsSliceOfDescendingList

(***************************************************************************)
(* The encryption specification: the two schemes of src/crypto.rs applied  *)
(* to key pairs, session keys and byte strings.  A ciphertext is produced  *)
(* under one key and then decrypted under the same or another key.         *)
(***************************************************************************)
\* Key pairs as the constructors of SealedBoxPrivateKey build them: two
\* generated pairs, a pair from secret-key bytes that differ from a generated
\* key in clamped bits only, the pair derived from a seed, and the pair that
\* takes the bytes of that seed for its secret key.
KeyPairs ==
    { SealedBoxPrivateKey_generate(<<"rnd", 2>>),
      SealedBoxPrivateKey_generate(<<"rnd", 3>>),
      SealedBoxPrivateKey_from_bytes(B32(<<"alt", <<"rnd", 3>>>>)).val,
      SealedBoxPrivateKey_from_base58_seed(bs58_encode(B32(ServerSeed))).val,
      SealedBoxPrivateKey_from_bytes(B32(ServerSeed)).val }

\* Byte strings: empty, text, bytes that are no UTF-8, key bytes, and bytes
\* of mixed origin.
Messages ==
    { <<>>, as_bytes("hello"), as_bytes("bye"), Raw(2, 4), B32(ServerKey),
      B32(OtherKey) \o Raw(7, 1) }

InitCrypto ==
    /\ settings = [version |-> {}, publicKey |-> {}]
    /\ entry = {}
    /\ state = None
    /\ starts = 0
    /\ req = NoRequest
    /\ resp = NoResponse
    /\ stdout = <<>>
    /\ issued = {}
    /\ posted = {}
    /\ file = None
    /\ tasks = {}

\* a.public().encrypt(m); r is the ephemeral key sealedbox::seal draws.
SealedEncrypt(a, m, r) ==
    /\ Idle
    /\ req' = <<"SealedBoxPublicKey::encrypt", a, m>>
    /\ resp' = Ok(SealedBoxPublicKey_encrypt(SealedBoxPrivateKey_public(a), m, r))
    /\ UNCHANGED <<settings, entry, state, starts, stdout, issued, posted>>
    /\ UNCHANGED <<file, tasks>>

\* b.decrypt(c) of the ciphertext c just produced.
SealedDecrypt(b) ==
    /\ req[1] = "SealedBoxPublicKey::encrypt"
    /\ req' = <<"SealedBoxPrivateKey::decrypt", req[2], req[3], b>>
    /\ resp' = SealedBoxPrivateKey_decrypt(b, resp.val)
    /\ UNCHANGED <<settings, entry, state, starts, stdout, issued, posted>>
    /\ UNCHANGED <<file, tasks>>

\* a.encrypt(m); n is the nonce secretbox::gen_nonce draws.
SecretEncrypt(a, m, n) ==
    /\ Idle
    /\ req' = <<"SecretBox::encrypt", a, m>>
    /\ resp' = Ok(SecretBox_encrypt(a, m, n))
    /\ UNCHANGED <<settings, entry, state, starts, stdout, issued, posted>>
    /\ UNCHANGED <<file, tasks>>

\* b.decrypt(c) of the ciphertext c just produced.
SecretDecrypt(b) ==
    /\ req[1] = "SecretBox::encrypt"
    /\ req' = <<"SecretBox::decrypt", req[2], req[3], b>>
    /\ resp' = SecretBox_decrypt(b, resp.val)
    /\ UNCHANGED <<settings, entry, state, starts, stdout, issued, posted>>
    /\ UNCHANGED <<file, tasks>>

NextCrypto ==
    \/ \E a \in KeyPairs, m \in Messages, r \in Nonces : SealedEncrypt(a, m, r)
    \/ \E b \in KeyPairs : SealedDecrypt(b)
    \/ \E a \in SessionBoxes, m \in Messages, n \in Nonces : SecretEncrypt(a, m, n)
    \/ \E b \in SessionBoxes : SecretDecrypt(b)
    \/ Deliver

SpecCrypto == InitCrypto /\ [][NextCrypto]_vars

(***************************************************************************)
(* C11.  Asymmetric round trip: for every byte string m and every key pair *)
(* k, decrypting with the private key of k the ciphertext that encrypting  *)
(* m with the public key of k produced succeeds and returns m.             *)
(***************************************************************************)
C11_AsymmetricRoundTrip ==
    (req[1] = "SealedBoxPrivateKey::decrypt" /\ req[4] = req[2]) => resp = Ok(req[3])

C11_Witness ==
    /\ req[1] = "SealedBoxPrivateKey::decrypt"
    /\ req[4] = req[2]
    /\ req[2] = SealedBoxPrivateKey_from_base58_seed(bs58_encode(B32(ServerSeed))).val
    /\ req[3] = B32(OtherKey) \o Raw(7, 1)
    /\ resp.ok
    /\ resp.val = req[3]

(***************************************************************************)
(* C12.  Cross-key rejection: a ciphertext sealed for the public key of A  *)
(* is not opened by a key pair B whose public key differs from A's, and a  *)
(* ciphertext of session key A is not opened by a session key B different  *)
(* from A: decrypt returns its decrypt error, never a plaintext.           *)
(***************************************************************************)
C12_CrossKeyRejection ==
    /\ ( /\ req[1] = "SealedBoxPrivateKey::decrypt"
         /\ ~SealedBoxPublicKey_eq(SealedBoxPrivateKey_public(req[2]),
                                   SealedBoxPrivateKey_public(req[4])) )
          => resp = Err("Error decrypting")
    /\ ( /\ req[1] = "SecretBox::decrypt"
         /\ req[4].key # req[2].key )
          => resp = Err("Error decrypting.")

C12_Witness ==
    /\ req[1] = "SealedBoxPrivateKey::decrypt"
    /\ req[2] = SealedBoxPrivateKey_from_base58_seed(bs58_encode(B32(ServerSeed))).val
    /\ req[4] = SealedBoxPrivateKey_from_bytes(B32(ServerSeed)).val
    /\ req[3] = as_bytes("hello")
    /\ ~resp.ok

\* Two secret keys that differ in clamped bits only are one key: each opens
\* what was sealed for the other.
C12_ClampedKeysAreOneKey ==
    ( /\ req[1] = "SealedBoxPrivateKey::decrypt"
      /\ req[2].private_key # req[4].private_key
      /\ clamp(req[2].private_key) = clamp(req[4].private_key) )
    => resp = Ok(req[3])

(***************************************************************************)
(* The initialization specification: create_db (src/db.rs), statement by   *)
(* statement, at a path that holds no file, an empty file or a store.      *)
(* Every statement is its own transaction (create_db opens none), so each  *)
(* is one step; between two statements a statement can fail (`?`) or the   *)
(* process can be stopped, and another create_db can run.  The caller of   *)
(* create_db is not part of the sources: its one step that matters here,   *)
(* storing the public key with write_setting, follows the specification.   *)
(***************************************************************************)
MaxInits == 2       \* calls of create_db explored

EmptySettings == [version |-> {}, publicKey |-> {}]

InitStore ==
    /\ file \in {None, Some({}), StoreFile}
    /\ IF file = StoreFile
       THEN settings \in SettingsTables /\ entry \in EntryTables(settings)
       ELSE settings = EmptySettings /\ entry = {}
    /\ state = None
    /\ starts = 0
    /\ req = NoRequest
    /\ resp = NoResponse
    /\ stdout = <<>>
    /\ issued = {}
    /\ posted = {}
    /\ tasks = {}

\* One call of create_db for the key pair key: its position pc, whether it
\* created the file, and what it returned.
InitTask(id, key, pc, created, res) ==
    [id |-> id, key |-> key, pc |-> pc, created |-> created, res |-> res]

Ended(t) == t.pc \in {"done", "failed"}
Failed(t, msg) == InitTask(t.id, t.key, "failed", t.created, Err(msg))
At(t, pc) == InitTask(t.id, t.key, pc, t.created, t.res)

\* create_db is called: if file_name.exists() { bail!(..) }
CreateDb ==
    /\ Cardinality(tasks) < MaxInits
    /\ LET id == Cardinality(tasks) + 1
           t  == InitTask(id, SealedBoxPrivateKey_generate(<<"rnd", id + 1>>), "settings", FALSE,
                          Ok("pending"))
       IN  tasks' = tasks \cup
              { IF path_exists(file) THEN Failed(t, "Database already exists") ELSE t }
    /\ UNCHANGED <<settings, entry, state, starts, req, resp, stdout, issued, posted, file>>

\* CREATE TABLE settings, on a connection with create_if_missing(true).
CreateDb_SettingsTable(t) ==
    /\ t.pc = "settings"
    /\ IF file # None /\ "settings" \in file[1]
       THEN /\ tasks' = (tasks \ {t}) \cup {Failed(t, "table settings already exists")}
            /\ UNCHANGED file
       ELSE /\ file' = Some((IF file = None THEN {} ELSE file[1]) \cup {"settings"})
            /\ tasks' = (tasks \ {t}) \cup
                           {InitTask(t.id, t.key, "version", file = None, t.res)}
    /\ UNCHANGED <<settings, entry, state, starts, req, resp, stdout, issued, posted>>

\* INSERT INTO settings (key,value) VALUES ('version', '1')
CreateDb_VersionRow(t) ==
    /\ t.pc = "version"
    /\ LET w == write_setting(settings, SETTING_VERSION, <<"1">>)
       IN  /\ settings' = w.settings
           /\ tasks' = (tasks \ {t}) \cup
                          {IF w.res.ok THEN At(t, "entry") ELSE Failed(t, w.res.val)}
    /\ UNCHANGED <<entry, state, starts, req, resp, stdout, issued, posted, file>>

\* CREATE TABLE entry; then create_db returns Ok(db).
CreateDb_EntryTable(t) ==
    /\ t.pc = "entry"
    /\ IF "entry" \in file[1]
       THEN /\ tasks' = (tasks \ {t}) \cup {Failed(t, "table entry already exists")}
            /\ UNCHANGED file
       ELSE /\ file' = Some(file[1] \cup {"entry"})
            /\ tasks' = (tasks \ {t}) \cup {At(t, "publicKey")}
    /\ UNCHANGED <<settings, entry, state, starts, req, resp, stdout, issued, posted>>

\* The caller stores its public key: db.write_setting(SETTING_PUBLIC_KEY, ..),
\* and returns the private key to the operator.
WritePublicKey(t) ==
    /\ t.pc = "publicKey"
    /\ LET w == write_setting(settings, SETTING_PUBLIC_KEY,
                              SealedBoxPublicKey_to_string(SealedBoxPrivateKey_public(t.key)))
       IN  /\ settings' = w.settings
           /\ tasks' = (tasks \ {t}) \cup
                 { IF w.res.ok
                   THEN InitTask(t.id, t.key, "done", t.created,
                                 Ok(SealedBoxPrivateKey_to_string(t.key)))
                   ELSE Failed(t, w.res.val) }
    /\ UNCHANGED <<entry, state, starts, req, resp, stdout, issued, posted, file>>

\* The next statement fails (disk full, I/O error: `.await?` returns the
\* error), or the process is stopped before it runs.
Interrupted(t) ==
    /\ ~Ended(t)
    /\ tasks' = (tasks \ {t}) \cup {Failed(t, "interrupted")}
    /\ UNCHANGED <<settings, entry, state, starts, req, resp, stdout, issued, posted, file>>

NextInit ==
    \/ CreateDb
    \/ \E t \in tasks : CreateDb_SettingsTable(t)
    \/ \E t \in tasks : CreateDb_VersionRow(t)
    \/ \E t \in tasks : CreateDb_EntryTable(t)
    \/ \E t \in tasks : WritePublicKey(t)
    \/ \E t \in tasks : Interrupted(t)

SpecInit == InitStore /\ [][NextInit]_vars

\* The store that initialization for the key pair key sets up.
StoreComplete(key) ==
    /\ file = StoreFile
    /\ settings = [version |-> { <<"1">> },
                   publicKey |-> {SealedBoxPublicKey_to_string(SealedBoxPrivateKey_public(key))}]
    /\ entry = {}

(***************************************************************************)
(* C13.  Store initialization is one atomic setup: once no initialization  *)
(* is running any more, whether it returned, failed or was interrupted     *)
(* part-way, a store that an initialization created either does not exist  *)
(* or holds the settings table with the rows version = 1 and publicKey =   *)
(* the caller's key, and the empty entry table.                            *)
(***************************************************************************)
C13_InitIsAtomic ==
    ( /\ \A t \in tasks : Ended(t)
      /\ \E t \in tasks : t.created )
    => \/ file = None
       \/ \E t \in tasks : t.created /\ StoreComplete(t.key)

\* What does hold: an initialization that ran to its end left the store set up.
C13_CompleteWhenDone ==
    \A t \in tasks : t.pc = "done" => StoreComplete(t.key)

(***************************************************************************)
(* C14.  create_db called for a path at which a file exists (an empty      *)
(* file, a store with or without entries, a half set up store) fails with  *)
(* the error "Database already exists" and leaves the file, its settings   *)
(* and its entries unchanged.                                              *)
(***************************************************************************)
C14_InitOverExistingFileFails ==
    [][ (file # None /\ Cardinality(tasks') > Cardinality(tasks))
        => ( /\ \A t \in tasks' \ tasks :
                    /\ t.pc = "failed"
                    /\ t.res = Err("Database already exists")
                    /\ ~t.created
             /\ file' = file
             /\ settings' = settings
             /\ entry' = entry ) ]_vars

C14_Witness ==
    /\ file = StoreFile
    /\ entry # {}
    /\ settings.publicKey # {}
    /\ \E t \in tasks : t.pc = "failed" /\ t.res = Err("Database already exists")

(***************************************************************************)
(* C15.  Entries are immutable and the store is append-only: no step of    *)
(* the server (a write, a failed write, a read, a login, a form, a start   *)
(* or a shutdown) removes a stored entry or changes its timestamp, offset  *)
(* or ciphertext; and every entry a write request stored is still stored   *)
(* as it was written.                                                      *)
(***************************************************************************)
C15_EntriesAreImmutable ==
    [][ /\ \A r \in entry : r \in entry'
        /\ \A p \in posted : p.row \in entry' ]_vars

C15_Witness ==
    /\ IsWrite
    /\ req[4]
    /\ resp.status = 500
    /\ starts = MaxStarts
    /\ Cardinality(entry) > MaxTs
    /\ \E i \in issued : i.by < starts
    /\ \A p \in posted : p.row \in entry
    /\ \E p \in posted : p.row.timestamp_ms_utc = req[5] /\ p.text # req[2]

(***************************************************************************)
(* The key text specification: a generated private key is rendered         *)
(* (Display) and a text is parsed (from_base58).  The keys are given by    *)
(* the value of their 32 bytes, so that their base-58 text is computed     *)
(* digit by digit: keys with leading zero bytes, with bytes at the ends of *)
(* the byte range and around the base, and one symbolic key.               *)
(***************************************************************************)
MaxZeros == 2       \* leading zero bytes of the keys explored

Literal(vs) == [k \in 1..Len(vs) |-> <<"byte", vs[k]>>]

GeneratedKeys ==
    { SealedBoxPrivateKey_generate(
          <<"bytes", Literal(Repeat(0, z) \o <<x>> \o Repeat(y, KEYBYTES - 1 - z))>>) :
        z \in 0..MaxZeros, x \in {1, BASE - 1, BASE, BYTE - 1}, y \in {0, 1, BYTE - 1} }
    \cup { SealedBoxPrivateKey_generate(<<"bytes", Literal(Repeat(0, KEYBYTES))>>),
           SealedBoxPrivateKey_generate(<<"rnd", 1>>) }

\* What becomes of the text s on its way back: it arrives as it is, loses
\* its last character, gains a character, or has its first character
\* replaced by one outside the alphabet.
Arrives(s, how) ==
    IF s[1] # "text" THEN s
    ELSE CASE how = "cut"    -> <<"text", SubSeq(s[2], 1, Len(s[2]) - 1)>>
           [] how = "longer" -> <<"text", s[2] \o <<"z">>>>
           [] how = "typo"   -> <<"text", <<"0">> \o Tail(s[2])>>
           [] OTHER          -> s

\* secret.to_string()
RenderKey(k) ==
    /\ Idle
    /\ req' = <<"to_string", k>>
    /\ resp' = Ok(SealedBoxPrivateKey_to_string(k))
    /\ UNCHANGED <<settings, entry, state, starts, stdout, issued, posted, file, tasks>>

\* SealedBoxPrivateKey::from_base58(&secret_str)
ParseKey(how) ==
    /\ req[1] = "to_string"
    /\ req' = <<"from_base58", req[2], how, Arrives(resp.val, how)>>
    /\ resp' = SealedBoxPrivateKey_from_base58(Arrives(resp.val, how))
    /\ UNCHANGED <<settings, entry, state, starts, stdout, issued, posted, file, tasks>>

NextKeyText ==
    \/ \E k \in GeneratedKeys : RenderKey(k)
    \/ \E how \in {"same", "cut", "longer", "typo"} : ParseKey(how)
    \/ Deliver

SpecKeyText == InitCrypto /\ [][NextKeyText]_vars

(***************************************************************************)
(* C16.  Private-key text round trip: for every generated private key k,   *)
(* parsing the base-58 string that k renders to succeeds and yields a key  *)
(* whose public key equals the public key of k (and renders to the same    *)
(* string, which is what test_derive compares).                            *)
(***************************************************************************)
C16_KeyTextRoundTrip ==
    (req[1] = "from_base58" /\ req[3] = "same") =>
        /\ resp.ok
        /\ SealedBoxPublicKey_eq(SealedBoxPrivateKey_public(resp.val),
                                 SealedBoxPrivateKey_public(req[2]))
        /\ SealedBoxPublicKey_to_string(SealedBoxPrivateKey_public(resp.val))
             = SealedBoxPublicKey_to_string(SealedBoxPrivateKey_public(req[2]))

C16_Witness ==
    /\ req[1] = "from_base58"
    /\ req[3] = "same"
    /\ req[2].private_key = <<"bytes", Literal(<<0, 0, BASE>> \o Repeat(BYTE - 1, KEYBYTES - 3))>>
    /\ req[4][1] = "text"
    /\ Len(req[4][2]) > KEYBYTES
    /\ req[4][2][1] = "1" /\ req[4][2][2] = "1" /\ req[4][2][3] # "1"
    /\ resp.ok
    /\ resp.val.private_key = req[2].private_key

\* The text of a key with a character outside the alphabet does not parse,
\* and a text that lost or gained a character parses to another key, if it
\* parses at all: from_base58 neither pads nor truncates.
C16_MalformedTextIsRejected ==
    (req[1] = "from_base58" /\ req[4][1] = "text") =>
        /\ req[3] = "typo" => resp = Err("provided string contained invalid character")
        /\ (req[3] \in {"cut", "longer"} /\ resp.ok) =>
               resp.val.private_key # req[2].private_key
        /\ (req[3] \in {"cut", "longer"} /\ ~resp.ok) =>
               resp = Err("Wrong number of private key bytes")

(***************************************************************************)
(* C17.  The offset and limit of the query reach the store unchanged over  *)
(* the whole range of usize: for every offset that is not smaller than the *)
(* number of stored entries, those of 2^63 and more included, get_posts    *)
(* returns an empty page, and for every limit the page has at most limit   *)
(* entries.  (2^63 is I64Max + 1, the first usize that is no i64.)         *)
(***************************************************************************)
C17_WholeUsizeRange ==
    req[1] = "get_posts" =>
       LET page == resp.body[2]
       IN  /\ (req[2].offset # None /\ req[2].offset[1] >= Cardinality(entry))
                 => page = <<>>
           /\ req[2].limit # None => Len(page) <= req[2].limit[1]

\* The half of it that holds: no page is longer than its limit, because a
\* limit of 2^63 and more reaches SQLite negative, which lifts the bound on
\* a table that cannot hold 2^63 rows.
C17_PageWithinLimit ==
    (req[1] = "get_posts" /\ req[2].limit # None) => Len(resp.body[2]) <= req[2].limit[1]

(***************************************************************************)
(* The client specification: the server of Spec, with the login cookie of  *)
(* a read request restricted to what a client can present without knowing  *)
(* a session key: no cookie, any text and any bytes of its own (its own    *)
(* private key included), every cookie a login of this or an earlier       *)
(* process handed out, and what can be cut and spliced from those.         *)
(***************************************************************************)
\* The cookies a client makes from the cookie c that a login handed out.
Respliced(c) ==
    LET bytes == bs58_decode(c).val
    IN  { bs58_encode(TakeBytes(bytes, NONCEBYTES - 4)),
          bs58_encode(TakeBytes(bytes, BytesLen(bytes) - 12)) }
        \cup { bs58_encode(gen_nonce(n) \o DropBytes(bytes, NONCEBYTES)) : n \in Nonces }

ClientCookies ==
    {None} \cup
    { Some(c) : c \in
        { <<"junk", 2>>, bs58_encode(Raw(4, 10)), bs58_encode(Raw(5, 72)),
          bs58_encode(B32(OtherKey)), bs58_encode(gen_nonce(1) \o B32(OtherKey)) }
        \cup { i.cookie : i \in issued }
        \cup UNION { Respliced(i.cookie) : i \in issued } }

NextClient ==
    \/ Start
    \/ Deliver
    \/ Shutdown
    \/ \E post \in Texts, preview \in BOOLEAN, now_ms \in 1..MaxTs, now_off \in Offsets :
            WritePost(post, preview, TRUE, now_ms, now_off, 1)
    \/ \E post \in Texts, preview \in BOOLEAN :
            WritePost(post, preview, FALSE, 0, 0, 1)
    \/ \E secret \in Secrets, n \in Nonces : Login(secret, n)
    \/ \E cookie \in ClientCookies, query \in Queries : ReadPosts(cookie, query)
    \/ \E path \in {"/", "/login"} : GetForm(path)

SpecClient == Init /\ [][NextClient]_vars

(***************************************************************************)
(* C18.  Authorization does not compare the key of the cookie with the     *)
(* server's public key again; still, every cookie a client can present     *)
(* that the serving process accepts was handed out by a successful login   *)
(* of that same process, and wraps a private key whose public key equals   *)
(* the server's public key.  Hence only a read request with such a cookie  *)
(* is answered with the page of entries.                                   *)
(***************************************************************************)
IssuedHere(c) == \E i \in CurrentCookies : c = Some(i.cookie)

C18_AcceptedTokensWereIssued ==
    state # None =>
       /\ \A c \in ClientCookies :
             logged_in(state[1], c) =>
                /\ IssuedHere(c)
                /\ Authorized(state[1], c)
                /\ <<"pk", clamp(WrappedKey(c))>> = state[1].public_key.key
       /\ (IsRead /\ resp # LoginRedirect) => IssuedHere(req[2])

C18_Witness ==
    /\ IsRead
    /\ IssuedHere(req[2])
    /\ resp.status = 200
    /\ Len(resp.body[2]) > 0
    /\ \E i \in issued : i.by < starts /\ ~logged_in(state[1], Some(i.cookie))
    /\ \E c \in ClientCookies : ~IssuedHere(c) /\ c # None /\ Tampered(state[1], c)

(***************************************************************************)
(* The concurrency specification: the handlers of POST / and GET /read run *)
(* as interleaved tasks of one serving process.  A handler is received     *)
(* (the write handler reads the clock and seals the post), waits for the   *)
(* one connection of the pool (max_connections(1)), runs its one SQL       *)
(* statement on it, which SQLite executes as a whole, and responds.        *)
(***************************************************************************)
MaxTasks == 3       \* request handlers explored

InitConc ==
    /\ settings = [version |-> { <<"1">> },
                   publicKey |-> {SealedBoxPublicKey_to_string([key |-> ServerPub])}]
    /\ entry \in { {}, {Entry(0, 0, sealedbox_seal(as_bytes("hello"), ServerPub, 0))} }
    /\ state = Some([secret_box |-> SecretBox_generate(1), public_key |-> [key |-> ServerPub]])
    /\ starts = 1
    /\ req = NoRequest
    /\ resp = NoResponse
    /\ stdout = <<>>
    /\ issued = {}
    /\ posted = {}
    /\ file = StoreFile
    /\ tasks = {}

\* A handler: its route, the text and the entry of a write, the query of a
\* read, its position, the rows its statement returned and its response.
Handler(id, route, text, row, query, pc, rows, response) ==
    [id |-> id, route |-> route, text |-> text, row |-> row, query |-> query,
     pc |-> pc, rows |-> rows, response |-> response]

Moved(t, pc, rows, response) ==
    Handler(t.id, t.route, t.text, t.row, t.query, pc, rows, response)

\* POST / with submit: the entry is built, then db.write_entry(entry) is awaited.
ReceiveWrite(post, now_ms, now_off) ==
    /\ Cardinality(tasks) < MaxTasks
    /\ LET id == Cardinality(tasks) + 1
           e  == Entry(now_ms, now_off,
                       SealedBoxPublicKey_encrypt(state[1].public_key, as_bytes(post), id))
       IN  tasks' = tasks \cup
              {Handler(id, "POST /", post, e, Query(None, None), "acquire", <<>>, NoResponse)}
    /\ UNCHANGED <<settings, entry, state, starts, req, resp, stdout, issued, posted, file>>

\* GET /read of a logged-in client: db.get_posts(&query) is awaited.
ReceiveRead(query) ==
    /\ Cardinality(tasks) < MaxTasks
    /\ LET id == Cardinality(tasks) + 1
       IN  tasks' = tasks \cup
              {Handler(id, "GET /read", "", Entry(0, 0, <<>>), query, "acquire", <<>>,
                       NoResponse)}
    /\ UNCHANGED <<settings, entry, state, starts, req, resp, stdout, issued, posted, file>>

\* The pool hands its one connection to a waiting handler when it is idle.
Acquire(t) ==
    /\ t.pc = "acquire"
    /\ \A u \in tasks : u.pc # "execute"
    /\ tasks' = (tasks \ {t}) \cup {Moved(t, "execute", t.rows, t.response)}
    /\ UNCHANGED <<settings, entry, state, starts, req, resp, stdout, issued, posted, file>>

\* write_entry runs its INSERT, the connection goes back to the pool and the
\* handler responds: `?` turns an error into the response 500.
ExecuteWrite(t) ==
    /\ t.pc = "execute"
    /\ t.route = "POST /"
    /\ LET w == write_entry(entry, t.row)
       IN  /\ entry' = w.entry
           /\ posted' = IF w.res.ok
                        THEN posted \cup {[row |-> t.row, text |-> t.text,
                                           nth |-> Cardinality(posted) + 1]}
                        ELSE posted
           /\ tasks' = (tasks \ {t}) \cup
                 { Moved(t, "done", <<>>,
                         IF w.res.ok THEN Rendered(<<"write.html", "", "", "Post saved.">>)
                         ELSE ServerError(w.res.val)) }
    /\ UNCHANGED <<settings, state, starts, req, resp, stdout, issued, file>>

\* get_posts runs its SELECT, the connection goes back to the pool and the
\* handler decrypts the rows with the key of its session and responds.
ExecuteRead(t) ==
    /\ t.pc = "execute"
    /\ t.route = "GET /read"
    /\ LET rows  == get_posts(entry, t.query)
           posts == collect_posts(rows, SealedBoxPrivateKey_from_bytes(B32(ServerKey)).val)
       IN  tasks' = (tasks \ {t}) \cup
              { Moved(t, "done", rows,
                      IF posts.ok THEN Rendered(<<"posts.html", posts.val>>)
                      ELSE ServerError(posts.val)) }
    /\ UNCHANGED <<settings, entry, state, starts, req, resp, stdout, issued, posted, file>>

NextConc ==
    \/ \E post \in Texts, now_ms \in 1..MaxTs, now_off \in Offsets :
            ReceiveWrite(post, now_ms, now_off)
    \/ \E query \in Queries : ReceiveRead(query)
    \/ \E t \in tasks : Acquire(t)
    \/ \E t \in tasks : ExecuteWrite(t)
    \/ \E t \in tasks : ExecuteRead(t)

SpecConc == InitConc /\ [][NextConc]_vars

(***************************************************************************)
(* C19.  Under every interleaving of the handlers: the write requests that *)
(* obtained one and the same millisecond, once they have all responded,    *)
(* left exactly one entry for that millisecond, which is the entry of one  *)
(* of them as a whole (its timestamp, offset and contents); that request   *)
(* was answered "Post saved." and every other one with an error; and the   *)
(* rows of a read are the page of the entry table as it was before or      *)
(* after each write, never of a table in between.                          *)
(***************************************************************************)
Writes == { t \in tasks : t.route = "POST /" }
Reads  == { t \in tasks : t.route = "GET /read" }
SameMs(t) == { u \in Writes : u.row.timestamp_ms_utc = t.row.timestamp_ms_utc }
StoredAt(ms) == { r \in entry : r.timestamp_ms_utc = ms }

\* The entry table before the first write and after each write, in order.
TableAfter(k) == (entry \ PostedRows) \cup { p.row : p \in { q \in posted : q.nth <= k } }

C19_ConcurrentWritesAndReads ==
    /\ \A t \in Writes :
          ( /\ Cardinality(SameMs(t)) > 1
            /\ \A u \in SameMs(t) : u.pc = "done"
            /\ \A r \in entry \ PostedRows : r.timestamp_ms_utc # t.row.timestamp_ms_utc )
          => /\ \E u \in SameMs(t) :
                   /\ StoredAt(t.row.timestamp_ms_utc) = {u.row}
                   /\ u.response.status = 200
                   /\ \A v \in SameMs(t) \ {u} :
                         v.response.status = 500 /\ v.response.body[1] = "error"
    /\ \A t \in Reads :
          t.pc = "done" =>
             \E k \in 0..Cardinality(posted) : t.rows = get_posts(TableAfter(k), t.query)
    /\ Cardinality({ t \in tasks : t.pc = "execute" }) <= 1

C19_Witness ==
    \E t \in Writes, u \in Writes, r \in Reads :
        /\ t.id < u.id /\ u.id < r.id
        /\ t.pc = "done" /\ u.pc = "done" /\ r.pc = "done"
        /\ t.row.timestamp_ms_utc = u.row.timestamp_ms_utc
        /\ t.text # u.text
        /\ u.response.status = 200
        /\ t.response.status = 500
        /\ r.query = Query(None, None)
        /\ r.rows = <<>>
        /\ entry = {u.row}

====
